---- MODULE Spec2Model ----
(***************************************************************************)
(* The ingestion pipeline (content-generator-function/main.py) and the     *)
(* gallery viewer (frontend-app/app.py) as state machines.                 *)
(*                                                                         *)
(* Text is modelled as sequences of one-character strings, so that         *)
(* str.strip, the substring test  "Error:" in text  and the SQL pattern    *)
(* LIKE 'Error%'  are computed character by character.                     *)
(***************************************************************************)
EXTENDS Integers, Sequences, FiniteSets, TLC

\* ------------------------------------------------------------------ bounds

\* Largest number of data rows (after the header) of an uploaded CSV file.
MaxRows == 2

\* Largest number of rows of the warehouse table the viewer queries.
MaxTable == 2

\* ------------------------------------------------- literals of the source

\* main.py:111  the substring whose presence marks a failed text generation
ErrorMarker == <<"E","r","r","o","r",":">>

\* main.py:108
TextFailedMarker == <<"E","r","r","o","r",":"," ","T","e","x","t"," ","g","e","n","e","r","a","t","i","o","n"," ","f","a","i","l","e","d",".">>

\* main.py:137
NoImageMarker == <<"E","r","r","o","r",":"," ","N","o"," ","i","m","a","g","e"," ","r","e","t","u","r","n","e","d",".">>

\* main.py:142
ImageFailedMarker == <<"E","r","r","o","r",":"," ","I","m","a","g","e"," ","g","e","n","e","r","a","t","i","o","n"," ","f","a","i","l","e","d",".">>

\* main.py:144
SkippedMarker == <<"S","k","i","p","p","e","d",":"," ","T","e","x","t"," ","g","e","n","e","r","a","t","i","o","n"," ","f","a","i","l","e","d",".">>

\* app.py:26  the prefix of  NOT LIKE 'Error%'
LikePrefix == <<"E","r","r","o","r">>

\* google.cloud.storage Blob.public_url: https://storage.googleapis.com/<bucket>/<name>
UrlBase == <<"h","t","t","p","s",":","/","/","s","t","o","r","a","g","e",".","g","o","o","g","l","e","a","p","i","s",".","c","o","m","/">>

\* main.py:35  the configured images container
ImagesBucket == <<"i","m","g">>

\* main.py:129
PngSuffix == <<".","p","n","g">>

\* main.py:151  the source locator gs://<bucket>/<name> of the triggering file
SourceLocator == <<"g","s",":","/","/","u","p","/","f",".","c","s","v">>

\* A warehouse NULL: no character sequence equals it.
Null == <<"NULL">>

\* app.py:28
QueryLimit == 20

\* app.py:34
GridCols == 3

\* ---------------------------------------------------------- str helpers

\* str.strip() removes leading and trailing whitespace
IsSpace(c) == c \in {" ", "\t", "\n"}

RECURSIVE LStrip(_)
LStrip(s) == IF s # <<>> /\ IsSpace(Head(s)) THEN LStrip(Tail(s)) ELSE s

RECURSIVE RStrip(_)
RStrip(s) ==
    IF s # <<>> /\ IsSpace(s[Len(s)]) THEN RStrip(SubSeq(s, 1, Len(s) - 1)) ELSE s

Strip(s) == RStrip(LStrip(s))

\* sub in s
Contains(s, sub) ==
    \E i \in 1..(Len(s) - Len(sub) + 1) : SubSeq(s, i, i + Len(sub) - 1) = sub

\* s LIKE 'p%'
StartsWith(s, p) == Len(s) >= Len(p) /\ SubSeq(s, 1, Len(p)) = p

\* str.find(c, i): the first index from i on that holds c, 0 when there is none
RECURSIVE IndexOf(_, _, _)
IndexOf(s, c, i) ==
    IF i > Len(s) THEN 0 ELSE IF s[i] = c THEN i ELSE IndexOf(s, c, i + 1)

\* str.split(sep) on a one-character separator
RECURSIVE SplitOn(_, _)
SplitOn(s, sep) ==
    LET k == IndexOf(s, sep, 1)
    IN  IF k = 0 THEN <<s>>
        ELSE <<SubSeq(s, 1, k - 1)>> \o SplitOn(SubSeq(s, k + 1, Len(s)), sep)

UpperCase == <<"A","B","C","D","E","F","G","H","I","J","K","L","M","N","O","P","Q","R","S","T","U","V","W","X","Y","Z">>

LowerCase == <<"a","b","c","d","e","f","g","h","i","j","k","l","m","n","o","p","q","r","s","t","u","v","w","x","y","z">>

LowerChar(c) ==
    IF \E k \in 1..Len(UpperCase) : UpperCase[k] = c
    THEN LowerCase[CHOOSE k \in 1..Len(UpperCase) : UpperCase[k] = c]
    ELSE c

\* str.lower()
Lower(s) == [k \in 1..Len(s) |-> LowerChar(s[k])]

\* str.replace(' ', '_')
ReplaceSpaces(s) == [k \in 1..Len(s) |-> IF s[k] = " " THEN "_" ELSE s[k]]

DigitChars == <<"0","1","2","3","4","5","6","7","8","9">>

\* str(int)
RECURSIVE Digits(_)
Digits(n) ==
    IF n < 10 THEN <<DigitChars[n + 1]>>
    ELSE Digits(n \div 10) \o <<DigitChars[(n % 10) + 1]>>

\* ------------------------------------------------------------ csv parsing

\* Stands for a field longer than csv.field_size_limit(): the reader raises
\* _csv.Error when it meets the line that holds it.
Oversize == "~"

\* The lines io.StringIO(csv_content) yields: the text split at "\n", a
\* final empty fragment dropped; the empty text has no line.
FileLines(content) ==
    IF content = <<>> THEN <<>>
    ELSE LET parts == SplitOn(content, "\n")
         IN  IF parts[Len(parts)] = <<>>
             THEN SubSeq(parts, 1, Len(parts) - 1)
             ELSE parts

\* next(reader) raises on this line
ReaderRaises(line) == \E k \in 1..Len(line) : line[k] = Oversize

\* csv.reader: a blank line is the row [], any other line is split at commas
ParseRow(line) == IF line = <<>> THEN <<>> ELSE SplitOn(line, ",")

\* ---------------------------------------------------------------- inputs

HeaderLines == { <<"n",",","k">>, <<Oversize>> }

\* Data lines: two valid rows and rows of each skipped kind.
DataLines ==
    { <<" ","W"," ","d",",","b">>,      \* product "W d", keywords "b"
      <<",","b",",","x">>,              \* empty product, keywords "b", an extra column
      <<",",",">>,                      \* three empty columns
      <<"W">>,                          \* one column
      <<" ",","," ">>,                  \* two blank columns
      <<Oversize,",","b">> }            \* the reader raises

RECURSIVE JoinLines(_)
JoinLines(ls) == IF ls = <<>> THEN <<>> ELSE Head(ls) \o <<"\n">> \o JoinLines(Tail(ls))

RowSeqs == UNION { [1..n -> DataLines] : n \in 0..MaxRows }

CsvFiles == { <<>> } \cup { JoinLines(<<h>> \o rs) : h \in HeaderLines, rs \in RowSeqs }

\* text_model.generate_content(...).text, or the call raising
TextReplies ==
    { <<>>,
      <<" "," ">>,
      <<" ","B","u","y"," ","W"," ","d","."," ">>,
      <<"N","o"," ","E","r","r","o","r",":"," ","h","e","r","e">> }

TextOutcomes ==
    { [raises |-> TRUE, text |-> <<>>] } \cup
    { [raises |-> FALSE, text |-> t] : t \in TextReplies }

\* A content part of the image response: "image" carries inline image data,
\* "text" is a part whose inline_data is unset, "opaque" an object with no
\* inline_data attribute.
PartLists ==
    { <<>>, <<"image">>, <<"text">>, <<"text", "image">>, <<"opaque">> }

ImageBytes == <<"P", "N", "G">>

\* image_model.generate_content raising or answering (with or without a parts
\* attribute), then upload_from_file and public_url returning or raising. A
\* step that is not reached has one value: nothing follows a raised call, no
\* parts come without the attribute, no storage call follows an empty list or
\* an unreadable part, no public_url follows a raised upload.
ImageOutcomes ==
    { io \in [ call : {"ok", "throws"}, has : BOOLEAN, list : PartLists,
               upload : {"ok", "throws"}, url : {"ok", "throws"} ] :
        /\ io.call = "throws" => (io.has /\ io.list = <<>>)
        /\ ~io.has => io.list = <<>>
        /\ (io.list = <<>> \/ io.list[1] = "opaque") => (io.upload = "ok" /\ io.url = "ok")
        /\ io.upload = "throws" => io.url = "ok" }

\* The image model is not called.
NoImageCall == [call |-> "ok", has |-> FALSE, list |-> <<>>, upload |-> "ok", url |-> "ok"]

\* ----------------------------------------------------------------- state

VARIABLES
    pc,               \* position of the invocation of process_csv_and_generate_content
    apiKey,           \* GOOGLE_API_KEY is set
    failedBucket,     \* FAILED_BUCKET_NAME is set
    csv_content,      \* the text of the uploaded blob
    reader,           \* the lines the csv reader has not yielded yet
    rowNum,           \* data rows yielded so far
    rows_to_insert,   \* the records assembled
    rowLog,           \* history, one entry per record: what the row's calls did
    now,              \* datetime.utcnow(), in whole seconds
    sourceHas,        \* the file is in the source container
    failedHas,        \* the file is in the quarantine container
    images,           \* the objects of the images container
    warehouse,        \* the rows of the warehouse table
    insertCalls,      \* calls of insert_rows_json
    insertFailed,     \* the insert raised or answered errors
    downloaded,       \* history: download_as_text returned
    errorAt,          \* history: the step whose exception the handler of main.py:158 caught
    moveResult,       \* what move_to_failed_bucket did
    returned,         \* the value the invocation returned
    viewEnv,          \* the viewer's configuration
    vpc,              \* position of a render of the viewer
    results,          \* the rows the query returned
    idx,              \* index of the next row to render
    shown,            \* the cards displayed in this render
    errorMsgs         \* st.error messages displayed in this render

pipeVars ==
    <<pc, apiKey, failedBucket, csv_content, reader, rowNum, rows_to_insert, rowLog,
      now, sourceHas, failedHas, images, insertCalls, insertFailed, errorAt, downloaded,
      moveResult, returned>>

viewVars == <<viewEnv, vpc, results, idx, shown, errorMsgs>>

vars == <<pipeVars, warehouse, viewVars>>

\* ------------------------------------------------------- row enrichment

\* main.py:102-108
GenerateText(to) == IF to.raises THEN TextFailedMarker ELSE Strip(to.text)

\* main.py:111 with the empty-text test dropped
TextSucceededNoEmptyTest(generated_text) == ~Contains(generated_text, ErrorMarker)

\* main.py:111
TextSucceeded(generated_text) ==
    generated_text # <<>> /\ ~Contains(generated_text, ErrorMarker)

\* main.py:129
BlobName(product_name, t) ==
    Lower(ReplaceSpaces(product_name)) \o <<"_">> \o Digits(t) \o PngSuffix

\* main.py:135
PublicUrl(name) == UrlBase \o ImagesBucket \o <<"/">> \o name

\* main.py:139-142 with the marker of main.py:137 written instead
OnImageExceptionNoImage == NoImageMarker

\* main.py:139-142: what the except clause of the image stage leaves in generated_image_url
OnImageException == ImageFailedMarker

\* main.py:128  parts[0].inline_data.data
InlineData(part) == IF part = "image" THEN ImageBytes ELSE <<>>

\* main.py:126
HasParts(io) == io.has /\ io.list # <<>>

\* main.py:112-142: the image stage of row `row`. url is the value left in
\* generated_image_url, objs the objects uploaded, thrownAt the step that
\* raised ("none" when none did).
ImageStage(product_name, io, t, row) ==
    LET obj == [name |-> BlobName(product_name, t),
                bytes |-> InlineData(io.list[1]), row |-> row]
    IN  IF io.call = "throws"
        THEN [url |-> OnImageException, objs |-> <<>>, thrownAt |-> "call"]
        ELSE IF ~HasParts(io)
        THEN [url |-> NoImageMarker, objs |-> <<>>, thrownAt |-> "none"]
        ELSE IF io.list[1] = "opaque"
        THEN [url |-> OnImageException, objs |-> <<>>, thrownAt |-> "read"]
        ELSE IF io.upload = "throws"
        THEN [url |-> OnImageException, objs |-> <<>>, thrownAt |-> "upload"]
        ELSE IF io.url = "throws"
        THEN [url |-> OnImageException, objs |-> <<obj>>, thrownAt |-> "url"]
        ELSE [url |-> PublicUrl(obj.name), objs |-> <<obj>>, thrownAt |-> "none"]

\* main.py:98-153: one non-skipped row. record is the GeneratedRecord, objs the
\* uploads, log the history entry.
EnrichRow(product_name, keywords, to, io, t, row) ==
    LET generated_text == GenerateText(to)
        attempt == TextSucceeded(generated_text)
        img == IF attempt THEN ImageStage(product_name, io, t, row)
               ELSE [url |-> SkippedMarker, objs |-> <<>>, thrownAt |-> "none"]
        answered == attempt /\ io.call = "ok"
    IN  [ record |-> [ product_name |-> product_name,
                       keywords |-> keywords,
                       generated_content |-> generated_text,
                       generated_image_url |-> img.url,
                       source_file |-> SourceLocator,
                       processed_at |-> t ],
          objs |-> img.objs,
          log |-> [ row |-> row,
                    textRaised |-> to.raises,
                    imageCalls |-> IF attempt THEN 1 ELSE 0,
                    answered |-> answered,
                    has |-> answered /\ io.has,
                    parts |-> IF answered /\ io.has THEN io.list ELSE <<>>,
                    thrownAt |-> img.thrownAt ] ]

\* main.py:95 with "or" for "and"
SkipEmptyEither(product_name, keywords) == product_name = <<>> \/ keywords = <<>>

\* main.py:95
SkipEmpty(product_name, keywords) == product_name = <<>> /\ keywords = <<>>

\* ---------------------------------------------------- pipeline actions

Init ==
    /\ pc = "start"
    /\ apiKey \in BOOLEAN
    /\ failedBucket \in BOOLEAN
    /\ csv_content \in CsvFiles
    /\ reader = <<>>
    /\ rowNum = 0
    /\ rows_to_insert = <<>>
    /\ rowLog = <<>>
    /\ now = 9
    /\ sourceHas = TRUE
    /\ failedHas = FALSE
    /\ images = <<>>
    /\ warehouse = <<>>
    /\ insertCalls = 0
    /\ insertFailed = FALSE
    /\ errorAt = "none"
    /\ downloaded = FALSE
    /\ moveResult = "not_run"
    /\ returned = "pending"
    /\ viewEnv = [project |-> TRUE, dataset |-> TRUE, table |-> TRUE]
    /\ vpc = "idle"
    /\ results = <<>>
    /\ idx = 0
    /\ shown = <<>>
    /\ errorMsgs = 0

\* main.py:158-160: the except clause of the file block; move_to_failed_bucket follows
RaiseFileError(step) ==
    /\ errorAt' = step
    /\ pc' = "move"

\* main.py:20-55: configuration, clients, models, the event
Start ==
    /\ pc = "start"
    /\ UNCHANGED <<apiKey, failedBucket, csv_content, reader, rowNum, rows_to_insert,
                   rowLog, now, sourceHas, failedHas, images, warehouse, insertCalls,
                   insertFailed, errorAt, downloaded, moveResult, viewVars>>
    /\ IF ~apiKey
       THEN pc' = "done" /\ returned' = "None"
       ELSE \E initOk \in BOOLEAN :
                IF initOk
                THEN pc' = "download" /\ UNCHANGED returned
                ELSE pc' = "done" /\ returned' = "OK"

\* main.py:77-79
Download ==
    /\ pc = "download"
    /\ UNCHANGED <<apiKey, failedBucket, csv_content, reader, rowNum, rows_to_insert,
                   rowLog, now, sourceHas, failedHas, images, warehouse, insertCalls,
                   insertFailed, moveResult, returned, viewVars>>
    /\ \E ok \in BOOLEAN :
           IF ok THEN pc' = "header" /\ downloaded' = TRUE /\ UNCHANGED errorAt
           ELSE RaiseFileError("download") /\ UNCHANGED downloaded

\* main.py:81-85
ReadHeader ==
    /\ pc = "header"
    /\ UNCHANGED <<apiKey, failedBucket, csv_content, rowNum, rows_to_insert,
                   rowLog, now, sourceHas, failedHas, images, warehouse, insertCalls,
                   insertFailed, downloaded, moveResult, returned, viewVars>>
    /\ LET lines == FileLines(csv_content)
       IN  IF lines = <<>> \/ ReaderRaises(lines[1])
           THEN RaiseFileError("header") /\ UNCHANGED reader
           ELSE /\ reader' = Tail(lines)
                /\ pc' = "rows"
                /\ UNCHANGED errorAt

\* main.py:87-153: one iteration of the loop over the reader. The prompts are not
\* part of the state: what the two models answer is chosen freely, whatever the
\* prompt. The clock is read for the blob name and for processed_at, and is one
\* second further when the next record is assembled.
ProcessRow ==
    /\ pc = "rows"
    /\ reader # <<>>
    /\ UNCHANGED <<apiKey, failedBucket, csv_content, sourceHas, failedHas, warehouse,
                   insertCalls, insertFailed, downloaded, moveResult, returned, viewVars>>
    /\ LET line == Head(reader)
           row == ParseRow(line)
       IN  IF ReaderRaises(line)
           THEN /\ RaiseFileError("row")
                /\ UNCHANGED <<reader, rowNum, rows_to_insert, rowLog, now, images>>
           ELSE /\ reader' = Tail(reader)
                /\ rowNum' = rowNum + 1
                /\ UNCHANGED <<pc, errorAt>>
                /\ IF Len(row) < 2
                   THEN UNCHANGED <<rows_to_insert, rowLog, now, images>>
                   ELSE LET product_name == Strip(row[1])
                            keywords == Strip(row[2])
                        IN  IF SkipEmpty(product_name, keywords)
                            THEN UNCHANGED <<rows_to_insert, rowLog, now, images>>
                            ELSE \E to \in TextOutcomes :
                                 \E io \in IF TextSucceeded(GenerateText(to))
                                           THEN ImageOutcomes ELSE {NoImageCall} :
                                   LET e == EnrichRow(product_name, keywords, to, io,
                                                      now, rowNum + 1)
                                   IN  /\ rows_to_insert' = Append(rows_to_insert, e.record)
                                       /\ rowLog' = Append(rowLog, e.log)
                                       /\ images' = images \o e.objs
                                       /\ now' = now + 1

\* main.py:155-156: the reader is exhausted
LoopDone ==
    /\ pc = "rows"
    /\ reader = <<>>
    /\ pc' = "insert"
    /\ UNCHANGED <<apiKey, failedBucket, csv_content, reader, rowNum, rows_to_insert,
                   rowLog, now, sourceHas, failedHas, images, warehouse, insertCalls,
                   insertFailed, errorAt, downloaded, moveResult, returned, viewVars>>

\* main.py:161 with the return missing: the invocation goes on to the insert
AfterMoveFallsThrough == [pc |-> "insert", returned |-> "pending"]

\* main.py:161: the bare return after move_to_failed_bucket
AfterMove == [pc |-> "done", returned |-> "None"]

\* main.py:59-65
MoveCheck ==
    /\ pc = "move"
    /\ UNCHANGED <<apiKey, failedBucket, csv_content, reader, rowNum, rows_to_insert,
                   rowLog, now, sourceHas, failedHas, images, warehouse, insertCalls,
                   insertFailed, errorAt, downloaded, viewVars>>
    /\ IF ~failedBucket
       THEN /\ moveResult' = "unconfigured"
            /\ pc' = AfterMove.pc
            /\ returned' = AfterMove.returned
       ELSE /\ pc' = "move_copy"
            /\ UNCHANGED <<moveResult, returned>>

\* main.py:68-72 with the delete outside the try: it runs after a failed copy too
OnCopyFailureDelete == "move_delete"

\* main.py:68-72: copy_blob raising skips the delete
OnCopyFailure == AfterMove.pc

\* main.py:68, 71-72
MoveCopy ==
    /\ pc = "move_copy"
    /\ UNCHANGED <<apiKey, failedBucket, csv_content, reader, rowNum, rows_to_insert,
                   rowLog, now, sourceHas, images, warehouse, insertCalls,
                   insertFailed, errorAt, downloaded, viewVars>>
    /\ \E ok \in BOOLEAN :
           IF ok
           THEN /\ failedHas' = TRUE
                /\ pc' = "move_delete"
                /\ UNCHANGED <<moveResult, returned>>
           ELSE /\ moveResult' = "copy_failed"
                /\ pc' = OnCopyFailure
                /\ returned' = AfterMove.returned
                /\ UNCHANGED failedHas

\* main.py:69-72
MoveDelete ==
    /\ pc = "move_delete"
    /\ UNCHANGED <<apiKey, failedBucket, csv_content, reader, rowNum, rows_to_insert,
                   rowLog, now, failedHas, images, warehouse, insertCalls,
                   insertFailed, errorAt, downloaded, viewVars>>
    /\ pc' = AfterMove.pc
    /\ returned' = AfterMove.returned
    /\ \E ok \in BOOLEAN :
           IF ok
           THEN sourceHas' = FALSE /\ moveResult' = "moved"
           ELSE moveResult' = "delete_failed" /\ UNCHANGED sourceHas

\* main.py:164 with the test dropped
ShouldInsertAlways(rows) == TRUE

\* main.py:164
ShouldInsert(rows) == rows # <<>>

\* main.py:164-178. insert_rows_json is called without skip_invalid_rows: a
\* request with an invalid row inserts none.
Insert ==
    /\ pc = "insert"
    /\ pc' = "done"
    /\ returned' = "OK"
    /\ UNCHANGED <<apiKey, failedBucket, csv_content, reader, rowNum, rows_to_insert,
                   rowLog, now, sourceHas, failedHas, images, errorAt, downloaded, moveResult,
                   viewVars>>
    /\ IF ShouldInsert(rows_to_insert)
       THEN /\ insertCalls' = insertCalls + 1
            /\ \E outcome \in {"ok", "errors", "throws"} :
                   /\ warehouse' = IF outcome = "ok" THEN warehouse \o rows_to_insert
                                   ELSE warehouse
                   /\ insertFailed' = (outcome # "ok")
       ELSE UNCHANGED <<warehouse, insertCalls, insertFailed>>

Next == Start \/ Download \/ ReadHeader \/ ProcessRow \/ LoopDone \/ MoveCheck
        \/ MoveCopy \/ MoveDelete \/ Insert

Spec == Init /\ [][Next]_vars

\* ------------------------------------------------------------ the viewer

\* app.py:25-26: the WHERE clause
Qualifies(r) ==
    /\ r.generated_image_url # Null
    /\ ~StartsWith(r.generated_image_url, LikePrefix)

Take(s, n) == SubSeq(s, 1, IF Len(s) < n THEN Len(s) ELSE n)

\* app.py:22-32: the rows the query may return: the qualifying rows in an
\* order of descending processed_at (rows of equal time in either order),
\* cut to QueryLimit.
QueryResults(table) ==
    LET sel == SelectSeq(table, Qualifies)
        n == Len(sel)
        orders == { p \in [1..n -> 1..n] :
                      /\ \A i, j \in 1..n : i # j => p[i] # p[j]
                      /\ \A i, j \in 1..n :
                            i < j => sel[p[i]].processed_at >= sel[p[j]].processed_at }
    IN  { Take([i \in 1..n |-> sel[p[i]]], QueryLimit) : p \in orders }

HttpScheme == <<"h","t","t","p",":","/","/">>

HttpsScheme == <<"h","t","t","p","s",":","/","/">>

\* app.py:40: st.image shows a URL as it is and opens any other string as a
\* local file, raising when there is none.
ImageRaises(url) == ~(StartsWith(url, HttpScheme) \/ StartsWith(url, HttpsScheme))

\* app.py:15: required configuration is missing
ConfigMissing(env) == ~env.project \/ ~env.dataset \/ ~env.table

\* The one non-skipped row whose records fill the viewer's table.
ViewRow == ParseRow(<<" ","W"," ","d",",","b">>)

ViewTimes == {9, 10}

\* Every record the pipeline can write for ViewRow.
PipelineRecords ==
    { EnrichRow(Strip(ViewRow[1]), Strip(ViewRow[2]), to, io, t, 1).record :
        to \in TextOutcomes, io \in ImageOutcomes \cup {NoImageCall}, t \in ViewTimes }

Tables == UNION { [1..n -> PipelineRecords] : n \in 0..MaxTable }

ViewInit ==
    /\ pc = "done"
    /\ apiKey = TRUE
    /\ failedBucket = TRUE
    /\ csv_content = <<>>
    /\ reader = <<>>
    /\ rowNum = 0
    /\ rows_to_insert = <<>>
    /\ rowLog = <<>>
    /\ now = 9
    /\ sourceHas = TRUE
    /\ failedHas = FALSE
    /\ images = <<>>
    /\ warehouse \in Tables
    /\ insertCalls = 0
    /\ insertFailed = FALSE
    /\ errorAt = "none"
    /\ downloaded = FALSE
    /\ moveResult = "not_run"
    /\ returned = "OK"
    /\ viewEnv \in [project : BOOLEAN, dataset : BOOLEAN, table : BOOLEAN]
    /\ vpc = "start"
    /\ results = <<>>
    /\ idx = 0
    /\ shown = <<>>
    /\ errorMsgs = 0

\* app.py:16 and app.py:47-48: st.error
ShowError ==
    /\ errorMsgs' = errorMsgs + 1
    /\ vpc' = "done"

\* app.py:15-34: the configuration test, the query, the grid
Render ==
    /\ vpc = "start"
    /\ UNCHANGED <<pipeVars, warehouse, viewEnv, idx, shown>>
    /\ IF ConfigMissing(viewEnv)
       THEN ShowError /\ UNCHANGED results
       ELSE \E queryOk \in BOOLEAN :
                IF queryOk
                THEN /\ \E res \in QueryResults(warehouse) : results' = res
                     /\ vpc' = "loop"
                     /\ UNCHANGED errorMsgs
                ELSE ShowError /\ UNCHANGED results

\* app.py:36-45: one card; the subheader is on the page before st.image runs
RenderRow ==
    /\ vpc = "loop"
    /\ idx < Len(results)
    /\ UNCHANGED <<pipeVars, warehouse, viewEnv, results>>
    /\ LET row == results[idx + 1]
           raises == row.generated_image_url # <<>> /\ ImageRaises(row.generated_image_url)
       IN  /\ shown' = Append(shown, [ col |-> idx % GridCols,
                                       product_name |-> row.product_name,
                                       generated_image_url |-> row.generated_image_url,
                                       complete |-> ~raises ])
           /\ IF raises
              THEN ShowError /\ UNCHANGED idx
              ELSE idx' = idx + 1 /\ UNCHANGED <<vpc, errorMsgs>>

\* app.py:36: the results are exhausted
RenderEnd ==
    /\ vpc = "loop"
    /\ idx = Len(results)
    /\ vpc' = "done"
    /\ UNCHANGED <<pipeVars, warehouse, viewEnv, results, idx, shown, errorMsgs>>

ViewNext == Render \/ RenderRow \/ RenderEnd

ViewSpec == ViewInit /\ [][ViewNext]_vars

\* ------------------------------------------------------------ properties

\* The lines of the uploaded file after the header line.
DataLinesOf(content) ==
    LET lines == FileLines(content)
    IN  IF lines = <<>> THEN <<>> ELSE Tail(lines)

\* The data rows of the uploaded file, as the csv reader yields them.
DataRows ==
    LET lines == DataLinesOf(csv_content)
    IN  [k \in 1..Len(lines) |-> ParseRow(lines[k])]

\* A data row with at least 2 columns and a non-empty trimmed product_name or keywords.
ValidRow(r) == Len(r) >= 2 /\ (Strip(r[1]) # <<>> \/ Strip(r[2]) # <<>>)

ValidIdxOf(rows) == { k \in 1..Len(rows) : ValidRow(rows[k]) }

ObjectsOfRow(row) == { k \in 1..Len(images) : images[k].row = row }

\* C1: when the row iteration of a file with a header completes, the records
\* assembled are exactly one per data row that has at least 2 columns and a
\* non-empty trimmed product_name or keywords, in the rows' order and with the
\* row's trimmed fields, whatever the row's text and image generation did.
C1_OneRecordPerValidRow ==
    pc = "insert" =>
        LET rows == DataRows
            valid == ValidIdxOf(rows)
        IN  /\ Len(rows_to_insert) = Cardinality(valid)
            /\ { rowLog[k].row : k \in 1..Len(rowLog) } = valid
            /\ \A j, k \in 1..Len(rowLog) : j < k => rowLog[j].row < rowLog[k].row
            /\ \A k \in 1..Len(rows_to_insert) :
                  /\ rows_to_insert[k].product_name = Strip(rows[rowLog[k].row][1])
                  /\ rows_to_insert[k].keywords = Strip(rows[rowLog[k].row][2])

\* The iteration completed on a file with a skipped row and a valid row whose
\* text call raised.
C1_Witness ==
    /\ pc = "insert"
    /\ Len(DataRows) = 2
    /\ Len(rows_to_insert) = 1
    /\ rowLog[1].textRaised

\* C2: a row whose text generation failed (the call raised, or the text is empty
\* or contains "Error:") has the skip marker as generated_image_url, no call of
\* the image model and no object in the images container.
C2_TextFailureSkipsImage ==
    \A k \in 1..Len(rows_to_insert) :
        ( \/ rowLog[k].textRaised
          \/ rows_to_insert[k].generated_content = <<>>
          \/ Contains(rows_to_insert[k].generated_content, ErrorMarker) )
        => /\ rows_to_insert[k].generated_image_url = SkippedMarker
           /\ rowLog[k].imageCalls = 0
           /\ ObjectsOfRow(rowLog[k].row) = {}

\* One row's text call raised, another row's text came back empty, a third kind
\* of failure (a text holding "Error:") is in TextReplies.
C2_Witness ==
    /\ \E k \in 1..Len(rowLog) : rowLog[k].textRaised
    /\ \E k \in 1..Len(rowLog) :
          ~rowLog[k].textRaised /\ rows_to_insert[k].generated_content = <<>>

\* C3 as stated: whichever step of the image stage raised (the call, the read of
\* the part, the upload, the public URL), the record holds the image-failure
\* marker and no object was written for the row.
C3_AnyImageExceptionLeavesNoObject ==
    \A k \in 1..Len(rows_to_insert) :
        (rowLog[k].imageCalls = 1 /\ rowLog[k].thrownAt # "none")
        => /\ rows_to_insert[k].generated_image_url = ImageFailedMarker
           /\ ObjectsOfRow(rowLog[k].row) = {}

\* C3 amended: an exception of the image stage leaves the image-failure marker in
\* the record; no object was written for the row when the call, the read of the
\* part or the upload raised, and the uploaded object stays when the public URL
\* raised. The row still yields its record, and the file handler runs only for an
\* exception of the download, the header or the reader.
C3_ImageExceptionRecorded ==
    /\ \A k \in 1..Len(rows_to_insert) :
          (rowLog[k].imageCalls = 1 /\ rowLog[k].thrownAt # "none")
          => /\ rows_to_insert[k].generated_image_url = ImageFailedMarker
             /\ rowLog[k].thrownAt \in {"call", "read", "upload"}
                   => ObjectsOfRow(rowLog[k].row) = {}
             /\ rowLog[k].thrownAt = "url"
                   => Cardinality(ObjectsOfRow(rowLog[k].row)) = 1
    /\ errorAt = "row" => ReaderRaises(DataLinesOf(csv_content)[rowNum + 1])
    /\ errorAt = "header" =>
          (FileLines(csv_content) = <<>> \/ ReaderRaises(FileLines(csv_content)[1]))

\* The upload of the first row raised and the second row was enriched after it.
C3_Witness ==
    /\ Len(rows_to_insert) = 2
    /\ rowLog[1].thrownAt = "upload"
    /\ pc = "insert"

\* C4 as stated: after a file-level exception the file is in the quarantine
\* container, gone from the source container, and nothing was inserted.
C4_FileErrorAlwaysRelocates ==
    (pc = "done" /\ errorAt # "none") =>
        /\ failedHas
        /\ ~sourceHas
        /\ insertCalls = 0
        /\ warehouse = <<>>

\* C4 amended: after a file-level exception nothing is inserted, also when rows
\* were enriched before it, and the relocation is attempted: the file is in the
\* quarantine container and gone from the source container when the quarantine
\* container is configured and the copy and the delete succeeded; otherwise the
\* original is still in the source container.
C4_FileErrorQuarantines ==
    /\ errorAt # "none" => (insertCalls = 0 /\ warehouse = <<>>)
    /\ (pc = "done" /\ errorAt # "none") =>
          /\ moveResult # "not_run"
          /\ (moveResult = "unconfigured") = ~failedBucket
          /\ moveResult = "moved" => (failedHas /\ ~sourceHas)
          /\ moveResult # "moved" => sourceHas

\* The reader raised on the second row, after the first was enriched, and the
\* file was relocated.
C4_Witness ==
    /\ pc = "done"
    /\ errorAt = "row"
    /\ Len(rows_to_insert) = 1
    /\ moveResult = "moved"

\* Every data row of the file is skipped: fewer than 2 columns, or both fields blank.
OnlySkippedRows ==
    LET lines == FileLines(csv_content)
    IN  /\ lines # <<>>
        /\ \A k \in 1..Len(lines) : ~ReaderRaises(lines[k])
        /\ ValidIdxOf(DataRows) = {}

\* C5: a downloaded file with a header and no valid data row ends with no insert
\* and no quarantine action (the file stays in the source container, nothing is
\* copied); a downloaded file with no line at all is a file-level error.
C5_EmptyButWellFormed ==
    (pc = "done" /\ downloaded) =>
        /\ OnlySkippedRows =>
              /\ insertCalls = 0
              /\ warehouse = <<>>
              /\ errorAt = "none"
              /\ moveResult = "not_run"
              /\ sourceHas
              /\ ~failedHas
              /\ returned = "OK"
        /\ FileLines(csv_content) = <<>> =>
              /\ errorAt = "header"
              /\ moveResult # "not_run"
              /\ insertCalls = 0

\* A file with a header and two skipped rows was processed to the end.
C5_Witness ==
    /\ pc = "done"
    /\ downloaded
    /\ OnlySkippedRows
    /\ Len(DataRows) = 2

\* C6: every row the viewer's query selects holds the public URL of an uploaded
\* image in generated_image_url, never an error marker or the skip marker.
C6_OnlyIllustratedRowsSelected ==
    \A k \in 1..Len(results) :
        /\ StartsWith(results[k].generated_image_url, UrlBase)
        /\ results[k].generated_image_url # SkippedMarker

\* C7: a render that displays the error message displays it once and displays no
\* product card.
C7_ErrorReplacesGrid ==
    errorMsgs > 0 => (errorMsgs = 1 /\ shown = <<>>)

\* C8: the invocation returns on the quarantine path and on the insert-failure
\* path the value a fully successful invocation returns, "OK" (main.py:178).
C8_SameReturnValue ==
    (pc = "done" /\ (errorAt # "none" \/ insertFailed)) => returned = "OK"

\* C9: when the image call answered and neither the upload nor the public URL
\* raised: if a part at any position carries inline image data, those bytes are
\* in the images container and generated_image_url is the object's public URL;
\* if no part carries image data, generated_image_url is "Error: No image returned.".
C9_AnyImagePartIsUploaded ==
    \A k \in 1..Len(rows_to_insert) :
        (rowLog[k].answered /\ rowLog[k].thrownAt \notin {"upload", "url"}) =>
            IF \E i \in 1..Len(rowLog[k].parts) : rowLog[k].parts[i] = "image"
            THEN \E o \in ObjectsOfRow(rowLog[k].row) :
                    /\ images[o].bytes = ImageBytes
                    /\ rows_to_insert[k].generated_image_url = PublicUrl(images[o].name)
            ELSE rows_to_insert[k].generated_image_url = NoImageMarker

\* C10: the uploaded file is always in the source container or in the quarantine
\* container; the delete is attempted only after the copy succeeded; a failed
\* copy, a failed delete or an unconfigured quarantine container leave the
\* original in place; and the invocation returns normally after the relocation.
C10_FileNeverLost ==
    /\ sourceHas \/ failedHas
    /\ pc = "move_delete" => (failedHas /\ failedBucket)
    /\ ~sourceHas => (failedHas /\ moveResult = "moved")
    /\ moveResult \in {"unconfigured", "copy_failed", "delete_failed"} => sourceHas
    /\ moveResult \in {"unconfigured", "copy_failed"} => ~failedHas
    /\ (pc = "done" /\ moveResult # "not_run") => returned = "None"

\* The copy succeeded and the delete raised: the file is in both containers.
C10_Witness ==
    /\ pc = "done"
    /\ moveResult = "delete_failed"
    /\ sourceHas
    /\ failedHas

====
